---------------------------- MODULE Spec2Model ----------------------------
(***************************************************************************)
(* State-machine model of the virtual file system of vfs_core.py:          *)
(* VFSNode (add_child, get_path, get_detailed_info) and VirtualFileSystem  *)
(* (default structure, load_from_xml, resolve_path, list_directory,        *)
(* change_directory, get_current_path, read_file, touch, is_valid_name).   *)
(*                                                                         *)
(* Python strings are TLA+ strings (sequences of characters): Len, SubSeq  *)
(* and \o act on them character by character.  A Python object reference   *)
(* is a node identifier (a natural number); identifiers are never reused,  *)
(* so two nodes are the same object iff they have the same identifier.     *)
(* A value that may be None is a sequence of length at most one: <<>> is   *)
(* None and <<v>> is the value v.                                          *)
(***************************************************************************)
EXTENDS Integers, Sequences, FiniteSets, TLC

VARIABLES nodes, current_directory, loaded, clock, nextId, op

vars == <<nodes, current_directory, loaded, clock, nextId, op>>

\* Largest node identifier the model allocates (the default structure uses 0..9).
MaxNodes == 11

\* Largest value of the clock read by time.time().
MaxClock == 1

-----------------------------------------------------------------------------
(* Optional values and strings *)

None == <<>>

Some(v) == <<v>>

Val(o) == o[1]

Char(s, i) == SubSeq(s, i, i)

Contains(s, c) == \E i \in 1..Len(s) : Char(s, i) = c

\* The characters str.strip() removes (the ASCII whitespace).
Whitespace == {" ", "\t", "\n", "\r"}

\* str.strip(): the string without its leading and trailing whitespace.
Strip(s) ==
    LET Body == {i \in 1..Len(s) : Char(s, i) \notin Whitespace}
    IN  IF Body = {} THEN ""
        ELSE LET lo == CHOOSE i \in Body : \A j \in Body : i <= j
                 hi == CHOOSE i \in Body : \A j \in Body : j <= i
             IN  SubSeq(s, lo, hi)

\* str.split('/'): the pieces between the separators, empty pieces included.
RECURSIVE Split(_)
Split(s) ==
    IF ~Contains(s, "/") THEN <<s>>
    ELSE LET i == CHOOSE k \in 1..Len(s) :
                      /\ Char(s, k) = "/"
                      /\ \A j \in 1..(k - 1) : Char(s, j) # "/"
         IN  <<SubSeq(s, 1, i - 1)>> \o Split(SubSeq(s, i + 1, Len(s)))

\* The comprehension without its filter: every piece is kept.
NonEmpty_KeepAll(parts) == parts

\* [p for p in parts if p]
NonEmpty(parts) == SelectSeq(parts, LAMBDA p : p # "")

\* '/'.join(parts)
RECURSIVE Join(_)
Join(parts) ==
    IF parts = <<>> THEN ""
    ELSE IF Len(parts) = 1 THEN parts[1]
    ELSE parts[1] \o "/" \o Join(Tail(parts))

\* The printable ASCII characters in code-point order: 32 (space) to 95, and
\* 97 to 126 (the grave accent, 96, cannot be written in a string here).
AsciiLow == " !\"#$%&'()*+,-./0123456789:;<=>?@ABCDEFGHIJKLMNOPQRSTUVWXYZ[\\]^_"

AsciiHigh == "abcdefghijklmnopqrstuvwxyz{|}~"

\* The code point of every printable ASCII character.
CodePoint ==
    [c \in {Char(AsciiLow, i) : i \in 1..Len(AsciiLow)}
            \cup {Char(AsciiHigh, i) : i \in 1..Len(AsciiHigh)} |->
        IF Contains(AsciiLow, c)
        THEN 31 + (CHOOSE i \in 1..Len(AsciiLow) : Char(AsciiLow, i) = c)
        ELSE 96 + (CHOOSE i \in 1..Len(AsciiHigh) : Char(AsciiHigh, i) = c)]

\* ord(c) of a printable ASCII character.
Ord(c) == CodePoint[c]

\* Python's s < t on strings: code-point order, a proper prefix first.
RECURSIVE StrLess(_, _)
StrLess(s, t) ==
    IF t = "" THEN FALSE
    ELSE IF s = "" THEN TRUE
    ELSE IF Char(s, 1) = Char(t, 1)
         THEN StrLess(SubSeq(s, 2, Len(s)), SubSeq(t, 2, Len(t)))
         ELSE Ord(Char(s, 1)) < Ord(Char(t, 1))

\* sorted(names): the names in ascending order.
RECURSIVE Sorted(_)
Sorted(S) ==
    IF S = {} THEN <<>>
    ELSE LET m == CHOOSE x \in S : \A y \in S \ {x} : StrLess(x, y)
         IN  <<m>> \o Sorted(S \ {m})

-----------------------------------------------------------------------------
(* VFSNode *)

root == 0

\* VFSNode.__init__ at time t.
VFSNode(name, node_type, content, permissions, owner, group, size, t) ==
    [name          |-> name,
     type          |-> node_type,
     content       |-> content,
     children      |-> IF node_type = "directory" THEN Some(<<>>) ELSE None,
     parent        |-> None,
     permissions   |-> permissions,
     owner         |-> owner,
     group         |-> group,
     size          |-> size,
     created_time  |-> t,
     modified_time |-> t]

\* The children dictionary of directory d, and its keys.
Children(ns, d) == Val(ns[d].children)

ChildNames(ns, d) == DOMAIN Children(ns, d)

\* add_child that assigns node.parent before it tests the kind of self.
add_child_ParentFirst(ns, self, node, t) ==
    IF ns[self].type = "directory"
    THEN [nodes  |-> [ns EXCEPT ![node].parent = Some(self),
                                ![self].children =
                                    Some((ns[node].name :> node) @@ Children(ns, self)),
                                ![self].modified_time = t],
          raised |-> FALSE]
    ELSE [nodes |-> [ns EXCEPT ![node].parent = Some(self)], raised |-> TRUE]

\* add_child without the assignment of node.parent.
add_child_NoParent(ns, self, node, t) ==
    IF ns[self].type = "directory"
    THEN [nodes  |-> [ns EXCEPT ![self].children =
                                    Some((ns[node].name :> node) @@ Children(ns, self)),
                                ![self].modified_time = t],
          raised |-> FALSE]
    ELSE [nodes |-> ns, raised |-> TRUE]

\* VFSNode.add_child: ns holds both nodes; the result is the new node map and
\* whether ValueError was raised.
add_child(ns, self, node, t) ==
    IF ns[self].type = "directory"
    THEN [nodes  |-> [ns EXCEPT ![node].parent = Some(self),
                                ![self].children =
                                    Some((ns[node].name :> node) @@ Children(ns, self)),
                                ![self].modified_time = t],
          raised |-> FALSE]
    ELSE [nodes |-> ns, raised |-> TRUE]

\* The names collected by the loop of get_path, outermost first.
RECURSIVE PathParts(_, _)
PathParts(ns, current) ==
    IF current = None THEN <<>>
    ELSE IF ns[Val(current)].name = "" THEN <<>>
    ELSE PathParts(ns, ns[Val(current)].parent) \o <<ns[Val(current)].name>>

\* VFSNode.get_path
get_path(ns, self) ==
    IF ns[self].name = "" THEN "/"
    ELSE "/" \o Join(PathParts(ns, Some(self)))

\* VFSNode.get_detailed_info: the fields of the rendered line.
get_detailed_info(node) ==
    [perm  |-> IF node.type = "directory" THEN "d" \o node.permissions
               ELSE "-" \o node.permissions,
     owner |-> node.owner,
     group |-> node.group,
     size  |-> IF node.type = "directory" THEN 4096
               ELSE IF node.content # None /\ Val(node.content) # ""
                    THEN Len(Val(node.content))
                    ELSE node.size,
     time  |-> node.modified_time,
     name  |-> node.name]

-----------------------------------------------------------------------------
(* VirtualFileSystem: construction *)

\* The nodes of _create_default_structure, before they are linked.
DefaultNodes ==
    (0 :> VFSNode("", "directory", None, "rwxr-xr-x", "root", "root", 0, 0))
    @@ (1 :> VFSNode("bin", "directory", None, "rwxr-xr-x", "root", "root", 0, 0))
    @@ (2 :> VFSNode("home", "directory", None, "rwxr-xr-x", "root", "root", 0, 0))
    @@ (3 :> VFSNode("etc", "directory", None, "rwxr-xr-x", "root", "root", 0, 0))
    @@ (4 :> VFSNode("tmp", "directory", None, "rwxrwxrwt", "root", "root", 0, 0))
    @@ (5 :> VFSNode("var", "directory", None, "rwxr-xr-x", "root", "root", 0, 0))
    @@ (6 :> VFSNode("user", "directory", None, "rwxr-xr-x", "user", "user", 0, 0))
    @@ (7 :> VFSNode("readme.txt", "file",
                     Some("Welcome to VFS Emulator!\nThis is a virtual file system."),
                     "rw-r--r--", "user", "user", 150, 0))
    @@ (8 :> VFSNode("passwd", "file",
                     Some("root:x:0:0:root:/root:/bin/bash\nuser:x:1000:1000:User:/home/user:/bin/bash"),
                     "rw-r--r--", "root", "root", 100, 0))
    @@ (9 :> VFSNode("hosts", "file",
                     Some("127.0.0.1 localhost\n::1 localhost ip6-localhost ip6-loopback"),
                     "rw-r--r--", "root", "root", 80, 0))

\* The add_child calls of _create_default_structure, in order: <<parent, child>>.
DefaultLinks ==
    << <<0, 1>>, <<0, 2>>, <<0, 3>>, <<0, 4>>, <<0, 5>>,
       <<2, 6>>, <<6, 7>>, <<3, 8>>, <<3, 9>> >>

RECURSIVE LinkAll(_, _, _)
LinkAll(ns, links, t) ==
    IF links = <<>> THEN ns
    ELSE LinkAll(add_child(ns, links[1][1], links[1][2], t).nodes, Tail(links), t)

\* VirtualFileSystem._create_default_structure
_create_default_structure == LinkAll(DefaultNodes, DefaultLinks, 0)

-----------------------------------------------------------------------------
(* VirtualFileSystem: path resolution *)

\* The loop of resolve_path where '..' on a node without parent fails.
RECURSIVE Walk_StrictParent(_, _, _)
Walk_StrictParent(ns, current, path_parts) ==
    IF path_parts = <<>> THEN Some(current)
    ELSE LET part == Head(path_parts)
         IN  IF part = ".."
             THEN IF ns[current].parent # None
                  THEN Walk_StrictParent(ns, Val(ns[current].parent), Tail(path_parts))
                  ELSE None
             ELSE IF part = "."
             THEN Walk_StrictParent(ns, current, Tail(path_parts))
             ELSE IF ns[current].type # "directory"
                     \/ part \notin ChildNames(ns, current)
                  THEN None
                  ELSE Walk_StrictParent(ns, Children(ns, current)[part], Tail(path_parts))

\* The loop of resolve_path over the path components.
RECURSIVE Walk(_, _, _)
Walk(ns, current, path_parts) ==
    IF path_parts = <<>> THEN Some(current)
    ELSE LET part == Head(path_parts)
         IN  IF part = ".."
             THEN IF ns[current].parent # None
                  THEN Walk(ns, Val(ns[current].parent), Tail(path_parts))
                  ELSE Walk(ns, current, Tail(path_parts))
             ELSE IF part = "."
             THEN Walk(ns, current, Tail(path_parts))
             ELSE IF ns[current].type # "directory"
                     \/ part \notin ChildNames(ns, current)
                  THEN None
                  ELSE Walk(ns, Children(ns, current)[part], Tail(path_parts))

\* VirtualFileSystem.resolve_path with current_directory = cur: None or Some(node).
\* The path "" also stands for a path of None: the code only tests `not path`.
resolve_path(ns, cur, path) ==
    IF path = "" \/ path = "/" THEN Some(root)
    ELSE IF Char(path, 1) = "/"
         THEN Walk(ns, root, NonEmpty(Split(SubSeq(path, 2, Len(path)))))
         ELSE Walk(ns, cur, NonEmpty(Split(path)))

\* is_valid_name with '|' left out of its list of forbidden characters.
is_valid_name_NoBar(name) ==
    IF name = "" \/ Strip(name) = "" THEN FALSE
    ELSE \A char \in {"/", "\\", ":", "*", "?", "\"", "<", ">"} : ~Contains(name, char)

\* VirtualFileSystem.is_valid_name
invalid_chars == {"/", "\\", ":", "*", "?", "\"", "<", ">", "|"}

is_valid_name(name) ==
    IF name = "" \/ Strip(name) = "" THEN FALSE
    ELSE \A char \in invalid_chars : ~Contains(name, char)

-----------------------------------------------------------------------------
(* Results of the operations: status is "ok" (a result), "error" (an error   *)
(* value was returned) or "raise" (an exception left the method).            *)

Ok(v) == [status |-> "ok", err |-> "", value |-> v]

Error(msg) == [status |-> "error", err |-> msg, value |-> None]

Raise(msg) == [status |-> "raise", err |-> msg, value |-> None]

\* The record of the last call: the operation, its arguments and its result.
Call(name, arg, res) ==
    [name |-> name, arg |-> arg, status |-> res.status, err |-> res.err,
     value |-> res.value]

\* The simple listing without the '/' after the name of a directory.
SimpleItems_NoSlash(ns, d) ==
    LET names == Sorted(ChildNames(ns, d))
    IN  [i \in 1..Len(names) |-> names[i]]

\* The simple listing of directory d: names in sorted order, directories with '/'.
SimpleItems(ns, d) ==
    LET names == Sorted(ChildNames(ns, d))
    IN  [i \in 1..Len(names) |->
            IF ns[Children(ns, d)[names[i]]].type = "directory"
            THEN names[i] \o "/" ELSE names[i]]

\* The detailed listing with the '..' line for the root as well.
DetailedItems_NoRootTest(ns, d, t) ==
    LET names == Sorted(ChildNames(ns, d))
        lines == [i \in 1..Len(names) |-> get_detailed_info(ns[Children(ns, d)[names[i]]])]
        parent_info == VFSNode("..", "directory", None, "rwxr-xr-x", "root", "root", 0, t)
    IN  <<get_detailed_info(parent_info)>> \o lines

\* The detailed listing of directory d at time t.
DetailedItems(ns, d, t) ==
    LET names == Sorted(ChildNames(ns, d))
        lines == [i \in 1..Len(names) |-> get_detailed_info(ns[Children(ns, d)[names[i]]])]
        parent_info == VFSNode("..", "directory", None, "rwxr-xr-x", "root", "root", 0, t)
    IN  IF d # root THEN <<get_detailed_info(parent_info)>> \o lines ELSE lines

\* VirtualFileSystem.list_directory
list_directory(ns, cur, path, detailed, t) ==
    LET target_dir == IF path # "" THEN resolve_path(ns, cur, path) ELSE Some(cur)
    IN  IF target_dir = None THEN Error("Directory not found")
        ELSE IF ns[Val(target_dir)].type # "directory" THEN Error("Not a directory")
        ELSE IF detailed THEN Ok(Some(DetailedItems(ns, Val(target_dir), t)))
        ELSE Ok(Some(SimpleItems(ns, Val(target_dir))))

\* VirtualFileSystem.read_file
read_file(ns, cur, path) ==
    LET file_node == resolve_path(ns, cur, path)
    IN  IF file_node = None THEN Error("File not found")
        ELSE IF ns[Val(file_node)].type # "file" THEN Error("Not a file")
        ELSE Ok(ns[Val(file_node)].content)

\* VirtualFileSystem.get_current_path
get_current_path(ns, cur) == get_path(ns, cur)

-----------------------------------------------------------------------------
(* VirtualFileSystem: loading from XML *)

\* element.get(key): None when the attribute is absent.
Attr(element, key) ==
    IF key \in DOMAIN element.attrs THEN Some(element.attrs[key]) ELSE None

\* element.get(key, default)
AttrOr(element, key, default) ==
    IF key \in DOMAIN element.attrs THEN element.attrs[key] ELSE default

Digits == "0123456789"

RECURSIVE DigitsValue(_)
DigitsValue(s) ==
    IF s = "" THEN 0
    ELSE 10 * DigitsValue(SubSeq(s, 1, Len(s) - 1))
         + (CHOOSE d \in 0..9 : Char(Digits, d + 1) = Char(s, Len(s)))

\* int(s) of a string: optional whitespace around an optionally signed run of
\* decimal digits; None when int() raises ValueError.
IntOf(s) ==
    LET b    == Strip(s)
        neg  == b # "" /\ Char(b, 1) = "-"
        body == IF b # "" /\ Char(b, 1) \in {"+", "-"} THEN SubSeq(b, 2, Len(b)) ELSE b
    IN  IF body = "" \/ \E i \in 1..Len(body) : ~Contains(Digits, Char(body, i))
        THEN None
        ELSE Some(IF neg THEN 0 - DigitsValue(body) ELSE DigitsValue(body))

\* VirtualFileSystem._parse_directory on the child elements elems of an element,
\* at time t.  st is [nodes, next, raised]: the node map, the next free
\* identifier and whether an exception has been raised (which ends the parse).
RECURSIVE _parse_directory(_, _, _, _)
_parse_directory(st, parent_node, elems, t) ==
    IF st.raised \/ elems = <<>> THEN st
    ELSE
      LET child == Head(elems)
          name  == Attr(child, "name")
      IN
        IF child.tag = "directory" THEN
            IF name = None \/ Val(name) = "" THEN [st EXCEPT !.raised = TRUE]
            ELSE
              LET dir_node == st.next
                  created  == (dir_node :> VFSNode(Val(name), "directory", None,
                                                   AttrOr(child, "permissions", "rwxr-xr-x"),
                                                   AttrOr(child, "owner", "user"),
                                                   AttrOr(child, "group", "users"), 0, t))
                              @@ st.nodes
                  added    == add_child(created, parent_node, dir_node, t)
                  inner    == _parse_directory([nodes  |-> added.nodes,
                                              next   |-> dir_node + 1,
                                              raised |-> added.raised],
                                             dir_node, child.kids, t)
              IN  _parse_directory(inner, parent_node, Tail(elems), t)
        ELSE IF child.tag = "file" THEN
            IF name = None \/ Val(name) = "" THEN [st EXCEPT !.raised = TRUE]
            ELSE
              LET content   == IF child.text # "" THEN Strip(child.text) ELSE ""
                  size      == IF "size" \in DOMAIN child.attrs
                               THEN IntOf(child.attrs["size"])
                               ELSE Some(Len(content))
              IN
                IF size = None THEN [st EXCEPT !.raised = TRUE]
                ELSE
                  LET file_node == st.next
                      created   == (file_node :> VFSNode(Val(name), "file", Some(content),
                                                         AttrOr(child, "permissions", "rw-r--r--"),
                                                         AttrOr(child, "owner", "user"),
                                                         AttrOr(child, "group", "users"),
                                                         Val(size), t))
                                   @@ st.nodes
                      added     == add_child(created, parent_node, file_node, t)
                  IN  _parse_directory([nodes  |-> added.nodes,
                                      next   |-> file_node + 1,
                                      raised |-> added.raised],
                                     parent_node, Tail(elems), t)
        ELSE _parse_directory(st, parent_node, Tail(elems), t)

\* load_from_xml that empties root.children before it tests the root tag.
load_from_xml_ClearFirst(ns, next, wasLoaded, source, t) ==
    IF ~source.exists
    THEN [nodes |-> ns, next |-> next, loaded |-> wasLoaded,
          result |-> Raise("Error loading VFS")]
    ELSE IF ~source.wellformed
    THEN [nodes |-> ns, next |-> next, loaded |-> wasLoaded,
          result |-> Raise("Invalid XML format")]
    ELSE
      LET cleared == [ns EXCEPT ![root].children = Some(<<>>)]
      IN  IF source.root.tag # "vfs"
          THEN [nodes |-> cleared, next |-> next, loaded |-> wasLoaded,
                result |-> Raise("Error loading VFS")]
          ELSE
            LET parsed == _parse_directory([nodes |-> cleared, next |-> next,
                                            raised |-> FALSE],
                                           root, source.root.kids, t)
            IN  IF parsed.raised
                THEN [nodes |-> parsed.nodes, next |-> parsed.next, loaded |-> wasLoaded,
                      result |-> Raise("Error loading VFS")]
                ELSE [nodes |-> parsed.nodes, next |-> parsed.next, loaded |-> TRUE,
                      result |-> Ok(Some(TRUE))]

\* load_from_xml without the statement that empties root.children.
load_from_xml_NoClear(ns, next, wasLoaded, source, t) ==
    IF ~source.exists
    THEN [nodes |-> ns, next |-> next, loaded |-> wasLoaded,
          result |-> Raise("Error loading VFS")]
    ELSE IF ~source.wellformed
    THEN [nodes |-> ns, next |-> next, loaded |-> wasLoaded,
          result |-> Raise("Invalid XML format")]
    ELSE IF source.root.tag # "vfs"
    THEN [nodes |-> ns, next |-> next, loaded |-> wasLoaded,
          result |-> Raise("Error loading VFS")]
    ELSE
      LET parsed == _parse_directory([nodes |-> ns, next |-> next, raised |-> FALSE],
                                   root, source.root.kids, t)
      IN  IF parsed.raised
          THEN [nodes |-> parsed.nodes, next |-> parsed.next, loaded |-> wasLoaded,
                result |-> Raise("Error loading VFS")]
          ELSE [nodes |-> parsed.nodes, next |-> parsed.next, loaded |-> TRUE,
                result |-> Ok(Some(TRUE))]

\* VirtualFileSystem.load_from_xml at time t.  A source is the file at xml_path:
\* whether it exists, whether it is well-formed XML, and its root element.
\* The result is the node map, the next free identifier, the loaded flag and
\* the outcome of the call (every failure leaves as ValueError).
load_from_xml(ns, next, wasLoaded, source, t) ==
    IF ~source.exists
    THEN [nodes |-> ns, next |-> next, loaded |-> wasLoaded,
          result |-> Raise("Error loading VFS")]
    ELSE IF ~source.wellformed
    THEN [nodes |-> ns, next |-> next, loaded |-> wasLoaded,
          result |-> Raise("Invalid XML format")]
    ELSE IF source.root.tag # "vfs"
    THEN [nodes |-> ns, next |-> next, loaded |-> wasLoaded,
          result |-> Raise("Error loading VFS")]
    ELSE
      LET cleared == [ns EXCEPT ![root].children = Some(<<>>)]
          parsed  == _parse_directory([nodes |-> cleared, next |-> next, raised |-> FALSE],
                                    root, source.root.kids, t)
      IN  IF parsed.raised
          THEN [nodes |-> parsed.nodes, next |-> parsed.next, loaded |-> wasLoaded,
                result |-> Raise("Error loading VFS")]
          ELSE [nodes |-> parsed.nodes, next |-> parsed.next, loaded |-> TRUE,
                result |-> Ok(Some(TRUE))]

\* The nodes still referenced: those reachable from the root or the current
\* directory over children and parent references.  The others are garbage.
RECURSIVE Closure(_, _)
Closure(ns, S) ==
    LET step == S \cup {Val(ns[n].parent) : n \in {m \in S : ns[m].parent # None}}
                  \cup UNION {{Children(ns, n)[k] : k \in ChildNames(ns, n)} :
                              n \in {m \in S : ns[m].children # None}}
    IN  IF step = S THEN S ELSE Closure(ns, step)

Collect(ns, cur) == [n \in Closure(ns, {root, cur}) |-> ns[n]]

\* The nodes reachable from node d by following children maps only.
RECURSIVE Descendants(_, _)
Descendants(ns, S) ==
    LET step == S \cup UNION {{Children(ns, n)[k] : k \in ChildNames(ns, n)} :
                              n \in {m \in S : ns[m].children # None}}
    IN  IF step = S THEN S ELSE Descendants(ns, step)

Reachable(ns) == Descendants(ns, {root})

-----------------------------------------------------------------------------
(* VirtualFileSystem: navigation and touch *)

\* change_directory without the test that the target is a directory.
change_directory_NoTypeCheck(ns, cur, path) ==
    IF path = ""
    THEN LET home_dir == resolve_path(ns, cur, "/home/user")
         IN  IF home_dir # None
             THEN [current_directory |-> Val(home_dir), result |-> Ok(None)]
             ELSE [current_directory |-> root, result |-> Ok(None)]
    ELSE LET target_dir == resolve_path(ns, cur, path)
         IN  IF target_dir = None
             THEN [current_directory |-> cur, result |-> Error("Directory not found")]
             ELSE [current_directory |-> Val(target_dir), result |-> Ok(None)]

\* change_directory that commits the target before it tests its kind.
change_directory_CommitFirst(ns, cur, path) ==
    IF path = ""
    THEN LET home_dir == resolve_path(ns, cur, "/home/user")
         IN  IF home_dir # None
             THEN [current_directory |-> Val(home_dir), result |-> Ok(None)]
             ELSE [current_directory |-> root, result |-> Ok(None)]
    ELSE LET target_dir == resolve_path(ns, cur, path)
         IN  IF target_dir = None
             THEN [current_directory |-> cur, result |-> Error("Directory not found")]
             ELSE IF ns[Val(target_dir)].type # "directory"
             THEN [current_directory |-> Val(target_dir), result |-> Error("Not a directory")]
             ELSE [current_directory |-> Val(target_dir), result |-> Ok(None)]

\* VirtualFileSystem.change_directory: the new current directory and the result.
change_directory(ns, cur, path) ==
    IF path = ""
    THEN LET home_dir == resolve_path(ns, cur, "/home/user")
         IN  IF home_dir # None
             THEN [current_directory |-> Val(home_dir), result |-> Ok(None)]
             ELSE [current_directory |-> root, result |-> Ok(None)]
    ELSE LET target_dir == resolve_path(ns, cur, path)
         IN  IF target_dir = None
             THEN [current_directory |-> cur, result |-> Error("Directory not found")]
             ELSE IF ns[Val(target_dir)].type # "directory"
             THEN [current_directory |-> cur, result |-> Error("Not a directory")]
             ELSE [current_directory |-> Val(target_dir), result |-> Ok(None)]

\* touch without filename.strip().
touch_NoStrip(ns, cur, next, filename, t) ==
    IF filename = ""
    THEN [nodes |-> ns, next |-> next, result |-> Error("give a file name")]
    ELSE
      LET name == filename
      IN
        IF ~is_valid_name(name)
        THEN [nodes |-> ns, next |-> next, result |-> Error("invalid file name")]
        ELSE IF ns[cur].children = None
        THEN [nodes |-> ns, next |-> next, result |-> Raise("TypeError")]
        ELSE IF name \in ChildNames(ns, cur)
        THEN [nodes  |-> [ns EXCEPT ![Children(ns, cur)[name]].modified_time = t],
              next   |-> next,
              result |-> Ok(None)]
        ELSE
          LET new_file == next
              created  == (new_file :> VFSNode(name, "file", Some(""), "rw-r--r--",
                                               "user", "user", 0, t)) @@ ns
              added    == add_child(created, cur, new_file, t)
          IN  [nodes  |-> added.nodes,
               next   |-> new_file + 1,
               result |-> IF added.raised THEN Raise("ValueError") ELSE Ok(None)]

\* VirtualFileSystem.touch at time t: the node map, the next free identifier
\* and the result.  The two error messages are the method's Russian texts
\* "ukazhite imya fajla" (give a file name) and "nedopustimoe imya fajla"
\* (invalid file name).  `filename in current_dir.children` raises TypeError
\* when children is None.
touch(ns, cur, next, filename, t) ==
    IF filename = ""
    THEN [nodes |-> ns, next |-> next, result |-> Error("give a file name")]
    ELSE
      LET name == Strip(filename)
      IN
        IF ~is_valid_name(name)
        THEN [nodes |-> ns, next |-> next, result |-> Error("invalid file name")]
        ELSE IF ns[cur].children = None
        THEN [nodes |-> ns, next |-> next, result |-> Raise("TypeError")]
        ELSE IF name \in ChildNames(ns, cur)
        THEN [nodes  |-> [ns EXCEPT ![Children(ns, cur)[name]].modified_time = t],
              next   |-> next,
              result |-> Ok(None)]
        ELSE
          LET new_file == next
              created  == (new_file :> VFSNode(name, "file", Some(""), "rw-r--r--",
                                               "user", "user", 0, t)) @@ ns
              added    == add_child(created, cur, new_file, t)
          IN  [nodes  |-> added.nodes,
               next   |-> new_file + 1,
               result |-> IF added.raised THEN Raise("ValueError") ELSE Ok(None)]

-----------------------------------------------------------------------------
(* Inputs *)

\* XML elements.
Named(name) == [name |-> name]

Directory(attrs, kids) == [tag |-> "directory", attrs |-> attrs, text |-> "", kids |-> kids]

File(attrs, text) == [tag |-> "file", attrs |-> attrs, text |-> text, kids |-> <<>>]

Other(tag, attrs) == [tag |-> tag, attrs |-> attrs, text |-> "", kids |-> <<>>]

Vfs(kids) ==
    [exists |-> TRUE, wellformed |-> TRUE,
     root |-> [tag |-> "vfs", attrs |-> <<>>, text |-> "", kids |-> kids]]

\* <vfs><directory name="d"><file name="f">  hello </file></directory></vfs>
SrcMinimal == Vfs(<<Directory(Named("d"), <<File(Named("f"), "  hello\n")>>)>>)

\* <vfs><directory name="home"><directory name="user"/></directory></vfs>
SrcHome == Vfs(<<Directory(Named("home"), <<Directory(Named("user"), <<>>)>>)>>)

\* <vfs/>
SrcEmpty == Vfs(<<>>)

\* A file element without a name, nested, after valid siblings.
SrcMissingName ==
    Vfs(<<Directory(Named("d"), <<File(Named("f"), "x"), File(<<>>, "y")>>)>>)

\* Two sibling files of the same name.
SrcDuplicate == Vfs(<<File(Named("f"), "one"), File(Named("f"), "two")>>)

\* A file named like the parent-directory component.
SrcDotDot == Vfs(<<Directory(Named("d"), <<File(Named(".."), "x")>>)>>)

\* A home directory entry that is a file:
\* <vfs><directory name="home"><file name="user">x</file></directory></vfs>
SrcHomeFile == Vfs(<<Directory(Named("home"), <<File(Named("user"), "x")>>)>>)

\* A file named like the current-directory component, in a directory a.
SrcDot == Vfs(<<Directory(Named("a"), <<File(Named("."), "x")>>)>>)

\* An element of an unknown tag and a file with a size attribute.
SrcOther == Vfs(<<Other("link", Named("l")), File([name |-> "s", size |-> " 7"], "ab")>>)

\* A size attribute that is not a number.
SrcBadSize == Vfs(<<File([name |-> "s", size |-> "x"], "ab")>>)

\* A root element that is not 'vfs'.
SrcBadRoot ==
    [exists |-> TRUE, wellformed |-> TRUE,
     root |-> [tag |-> "fs", attrs |-> <<>>, text |-> "",
               kids |-> <<File(Named("a"), "x")>>]]

\* A file that is not well-formed XML, and a path where there is no file.
SrcMalformed == [SrcEmpty EXCEPT !.wellformed = FALSE]

SrcAbsent == [SrcEmpty EXCEPT !.exists = FALSE]

Sources ==
    {SrcMinimal, SrcHome, SrcHomeFile, SrcEmpty, SrcMissingName, SrcBadSize,
     SrcDuplicate, SrcDotDot, SrcDot, SrcOther, SrcBadRoot, SrcMalformed, SrcAbsent}

\* Paths given to cd, ls and cat.
Paths == {"", "/", "/home/user", "d", "/d/f", "a"}

\* Names given to touch.
TouchNames ==
    {"", " ", "\t ", "a", " a ", "..", "a/b"} \cup {"a" \o c : c \in invalid_chars}

-----------------------------------------------------------------------------
(* The state machine *)

\* No call is in progress and no result is pending.
Idle == Call("idle", "", Ok(None))

Init ==
    /\ nodes = _create_default_structure
    /\ current_directory = root
    /\ loaded = FALSE
    /\ clock = 0
    /\ nextId = 10
    /\ op = Idle

\* time.time() may advance between two calls (two reads of the wall clock can
\* also return the same value); the reads within one call all return the same
\* value.
Tick ==
    /\ op = Idle
    /\ clock < MaxClock
    /\ clock' = clock + 1
    /\ UNCHANGED <<nodes, current_directory, loaded, nextId, op>>

CallLoadFromXml(source) ==
    LET r == load_from_xml(nodes, nextId, loaded, source, clock)
    IN  /\ op = Idle
        /\ r.next <= MaxNodes + 1
        /\ nodes' = Collect(r.nodes, current_directory)
        /\ nextId' = r.next
        /\ loaded' = r.loaded
        /\ op' = Call("load", source, r.result)
        /\ UNCHANGED <<current_directory, clock>>

CallGetCurrentPath ==
    /\ op = Idle
    /\ op' = Call("pwd", "", Ok(Some(get_current_path(nodes, current_directory))))
    /\ UNCHANGED <<nodes, current_directory, loaded, clock, nextId>>

\* resolve_path that steps through the path with self.current_directory.
CallResolvePath_Commit(path) ==
    LET r == resolve_path(nodes, current_directory, path)
        c == IF r = None THEN current_directory ELSE Val(r)
    IN  /\ op = Idle
        /\ current_directory' = c
        /\ nodes' = Collect(nodes, c)
        /\ op' = Call("resolve", path, Ok(r))
        /\ UNCHANGED <<loaded, clock, nextId>>

\* A call of resolve_path: its value is None or the node found.
CallResolvePath(path) ==
    /\ op = Idle
    /\ op' = Call("resolve", path, Ok(resolve_path(nodes, current_directory, path)))
    /\ UNCHANGED <<nodes, current_directory, loaded, clock, nextId>>

CallListDirectory(path, detailed) ==
    /\ op = Idle
    /\ op' = Call("ls", [path |-> path, detailed |-> detailed],
                  list_directory(nodes, current_directory, path, detailed, clock))
    /\ UNCHANGED <<nodes, current_directory, loaded, clock, nextId>>

CallChangeDirectory(path) ==
    LET r == change_directory(nodes, current_directory, path)
    IN  /\ op = Idle
        /\ current_directory' = r.current_directory
        /\ nodes' = Collect(nodes, r.current_directory)
        /\ op' = Call("cd", path, r.result)
        /\ UNCHANGED <<loaded, clock, nextId>>

CallReadFile(path) ==
    /\ op = Idle
    /\ op' = Call("cat", path, read_file(nodes, current_directory, path))
    /\ UNCHANGED <<nodes, current_directory, loaded, clock, nextId>>

CallTouch(filename) ==
    LET r == touch(nodes, current_directory, nextId, filename, clock)
    IN  /\ op = Idle
        /\ r.next <= MaxNodes + 1
        /\ nodes' = r.nodes
        /\ nextId' = r.next
        /\ op' = Call("touch", filename, r.result)
        /\ UNCHANGED <<current_directory, loaded, clock>>

\* The caller has taken the result of the call; the next call can be made.
Return ==
    /\ op # Idle
    /\ op' = Idle
    /\ UNCHANGED <<nodes, current_directory, loaded, clock, nextId>>

Next ==
    \/ Tick
    \/ Return
    \/ \E source \in Sources : CallLoadFromXml(source)
    \/ CallGetCurrentPath
    \/ \E path \in Paths : CallResolvePath(path)
    \/ \E path \in Paths, detailed \in BOOLEAN : CallListDirectory(path, detailed)
    \/ \E path \in Paths : CallChangeDirectory(path)
    \/ \E path \in Paths : CallReadFile(path)
    \/ \E filename \in TouchNames : CallTouch(filename)

Spec == Init /\ [][Next]_vars

\* The values the variables take.
TypeOK ==
    /\ current_directory \in DOMAIN nodes
    /\ root \in DOMAIN nodes
    /\ loaded \in BOOLEAN
    /\ clock \in 0..MaxClock
    /\ nextId \in 10..(MaxNodes + 1)
    /\ DOMAIN nodes \subseteq 0..(nextId - 1)
    /\ op.status \in {"ok", "error", "raise"}

-----------------------------------------------------------------------------
(* Vocabulary of the properties *)

\* The operations of the command surface.
Commands == {"pwd", "ls", "cd", "cat", "touch"}

\* The last call was a load that returned normally.
LoadSucceeded == op.name = "load" /\ op.status = "ok"

\* The directory and file elements among elems, in document order.
KnownElements(elems) == SelectSeq(elems, LAMBDA e : e.tag \in {"directory", "file"})

\* The names of the directory and file elements among elems.
ElementNames(elems) ==
    {KnownElements(elems)[i].attrs["name"] : i \in 1..Len(KnownElements(elems))}

\* The last directory or file element of the given name among elems.
LastNamed(elems, name) ==
    LET known == KnownElements(elems)
        last  == CHOOSE i \in 1..Len(known) :
                     /\ known[i].attrs["name"] = name
                     /\ \A j \in (i + 1)..Len(known) : known[j].attrs["name"] # name
    IN  known[last]

\* Every directory or file element below elems, with the path that names it:
\* prefix, then the names of the enclosing directories, then its own name.
RECURSIVE ElementsAt(_, _)
ElementsAt(elems, prefix) ==
    UNION {{[path |-> prefix \o "/" \o KnownElements(elems)[i].attrs["name"],
             element |-> KnownElements(elems)[i]]}
           \cup ElementsAt(KnownElements(elems)[i].kids,
                           prefix \o "/" \o KnownElements(elems)[i].attrs["name"])
           : i \in 1..Len(KnownElements(elems))}

\* The simple listing a directory element calls for: the names of its child
\* elements in sorted order, a directory's name followed by '/'.
ExpectedItems(elems) ==
    LET names == Sorted(ElementNames(elems))
    IN  [i \in 1..Len(names) |->
            IF LastNamed(elems, names[i]).tag = "directory"
            THEN names[i] \o "/" ELSE names[i]]

\* A name touch must refuse: empty, whitespace only, or with a forbidden character.
RefusedName(name) ==
    \/ name = ""
    \/ \A i \in 1..Len(name) : Char(name, i) \in Whitespace
    \/ \E i \in 1..Len(name) :
           Char(name, i) \in {"/", "\\", ":", "*", "?", "\"", "<", ">", "|"}

-----------------------------------------------------------------------------
(* Properties *)

\* C1: a load that fails leaves the tree as it was: the same root children,
\* every node reachable from the root unchanged (so the same content of every
\* file), the same current path and the same listing of the current directory.
C1_FailedLoadLeavesTree ==
    [][(op'.name = "load" /\ op'.status = "raise") =>
          /\ nodes'[root].children = nodes[root].children
          /\ \A n \in Reachable(nodes) : n \in DOMAIN nodes' /\ nodes'[n] = nodes[n]
          /\ get_current_path(nodes', current_directory')
               = get_current_path(nodes, current_directory)
          /\ list_directory(nodes', current_directory', "", FALSE, clock')
               = list_directory(nodes, current_directory, "", FALSE, clock)]_vars

\* C2: the current directory is always a directory node reachable from the
\* root by following children maps.
C2_CursorReachableDirectory ==
    /\ nodes[current_directory].type = "directory"
    /\ current_directory \in Reachable(nodes)

\* C3: pwd, ls, cd, cat and touch return a result or an error value; no
\* exception leaves them.
C3_NoException == op.name \in Commands => op.status \in {"ok", "error"}

\* C4: the path of every node reachable from the root resolves, to a node of
\* the same path.
C4_PathRoundTrip ==
    \A n \in Reachable(nodes) :
        LET r == resolve_path(nodes, current_directory, get_path(nodes, n))
        IN  r # None /\ get_path(nodes, Val(r)) = get_path(nodes, n)

\* C5: loaded is false at first and becomes true only by a successful load;
\* after a successful load loaded is true, no node that was reachable before
\* is reachable from the root except the root, and the root's children are
\* the top-level directory and file elements of the source (for each name the
\* last element of that name, with its kind).
C5_LoadReplacesRoot ==
    /\ loaded = FALSE
    /\ [][/\ (loaded' # loaded) => (op'.name = "load" /\ op'.status = "ok")
          /\ (op'.name = "load" /\ op'.status = "ok") =>
                /\ loaded'
                /\ Reachable(nodes') \cap DOMAIN nodes = {root}
                /\ ChildNames(nodes', root) = ElementNames(op'.arg.root.kids)
                /\ \A k \in ChildNames(nodes', root) :
                       nodes'[Children(nodes', root)[k]].type
                         = LastNamed(op'.arg.root.kids, k).tag]_vars

\* A load succeeded on a source with elements after an earlier node had been
\* created and dropped.
C5_Witness ==
    /\ LoadSucceeded
    /\ loaded
    /\ ChildNames(nodes, root) # {}
    /\ 10 \notin DOMAIN nodes
    /\ nextId = 12

\* C6: after a successful load every file element is read back under its
\* path with its body trimmed, and every directory element lists the names of
\* its child elements.
C6_TreeMirrorsSource ==
    LoadSucceeded =>
        \A e \in ElementsAt(op.arg.root.kids, "") :
            IF e.element.tag = "file"
            THEN read_file(nodes, current_directory, e.path) = Ok(Some(Strip(e.element.text)))
            ELSE list_directory(nodes, current_directory, e.path, FALSE, clock)
                   = Ok(Some(ExpectedItems(e.element.kids)))

\* C7: the current directory changes only in a change_directory that succeeds.
C7_CursorMovesOnlyByCd ==
    [][(current_directory' # current_directory) => (op'.name = "cd" /\ op'.status = "ok")]_vars

\* A load succeeded while the current directory was not the root, and left it
\* where it was.
C7_Witness ==
    /\ LoadSucceeded
    /\ current_directory # root

\* C8: after a successful load the current directory is the root, or the
\* home directory of the loaded tree.
C8_LoadResetsCursor ==
    LoadSucceeded =>
        \/ current_directory = root
        \/ Some(current_directory) = resolve_path(nodes, current_directory, "/home/user")

\* C9: touch with a refused name returns an error about the name and changes
\* neither a node nor the current directory.
C9_TouchRefusesName ==
    [][(op'.name = "touch" /\ RefusedName(op'.arg)) =>
          /\ op'.status = "error"
          /\ op'.err \in {"give a file name", "invalid file name"}
          /\ nodes' = nodes
          /\ current_directory' = current_directory]_vars

\* touch("a/b") returned the invalid-name error.
C9_Witness ==
    /\ op.name = "touch"
    /\ op.arg = "a/b"
    /\ op.status = "error"
    /\ op.err = "invalid file name"

\* C10: touch with an accepted name (taken without its surrounding
\* whitespace) that is not a child of the current directory succeeds and adds
\* one node: an empty file of that name and size 0 whose parent is the current
\* directory, stored under that name; the other children and every other node
\* stay as they were, and a directory that was empty then lists that name only.
C10_TouchCreatesFile ==
    [][(/\ op'.name = "touch"
        /\ ~RefusedName(op'.arg)
        /\ \/ nodes[current_directory].children = None
           \/ Strip(op'.arg) \notin ChildNames(nodes, current_directory)) =>
          LET name == Strip(op'.arg)
          IN  /\ op'.status = "ok"
              /\ \E new \in DOMAIN nodes' \ DOMAIN nodes :
                    /\ DOMAIN nodes' = DOMAIN nodes \cup {new}
                    /\ nodes'[new].name = name
                    /\ nodes'[new].type = "file"
                    /\ nodes'[new].content = Some("")
                    /\ nodes'[new].size = 0
                    /\ nodes'[new].parent = Some(current_directory)
                    /\ nodes'[new].children = None
                    /\ Children(nodes', current_directory)
                         = (name :> new) @@ Children(nodes, current_directory)
              /\ \A n \in DOMAIN nodes \ {current_directory} : nodes'[n] = nodes[n]
              /\ nodes'[current_directory]
                   = [nodes[current_directory] EXCEPT
                         !.children = nodes'[current_directory].children,
                         !.modified_time = nodes'[current_directory].modified_time]
              /\ current_directory' = current_directory
              /\ Children(nodes, current_directory) = <<>> =>
                    list_directory(nodes', current_directory', "", FALSE, clock')
                      = Ok(Some(<<name>>))]_vars

\* touch was called with the name (taken without its surrounding whitespace)
\* of a child of the current directory.
TouchesChild ==
    /\ op'.name = "touch"
    /\ nodes[current_directory].children # None
    /\ Strip(op'.arg) \in ChildNames(nodes, current_directory)

\* Only the modified time of node c differs between the two states, and the
\* current directory and its listing are the same.
OnlyModifiedTimeOf(c) ==
    /\ DOMAIN nodes' = DOMAIN nodes
    /\ \A n \in DOMAIN nodes \ {c} : nodes'[n] = nodes[n]
    /\ nodes'[c] = [nodes[c] EXCEPT !.modified_time = nodes'[c].modified_time]
    /\ current_directory' = current_directory
    /\ list_directory(nodes', current_directory', "", FALSE, clock')
         = list_directory(nodes, current_directory, "", FALSE, clock)

\* C11 (as stated): touch with the name of a child of the current directory
\* succeeds, keeps every node as it was (kind, content, children, listing)
\* except that child's modified time, which becomes later than it was.
C11_TouchExistingLater ==
    [][TouchesChild =>
          LET c == Children(nodes, current_directory)[Strip(op'.arg)]
          IN  /\ op'.status = "ok"
              /\ OnlyModifiedTimeOf(c)
              /\ nodes'[c].modified_time > nodes[c].modified_time]_vars

\* C11 (amended): touch with an accepted name of a child of the current
\* directory succeeds, keeps every node as it was except that child's
\* modified time, which becomes the time of the touch.
C11_TouchExistingRefreshes ==
    [][(TouchesChild /\ ~RefusedName(op'.arg)) =>
          LET c == Children(nodes, current_directory)[Strip(op'.arg)]
          IN  /\ op'.status = "ok"
              /\ OnlyModifiedTimeOf(c)
              /\ nodes'[c].modified_time = clock']_vars

\* touch has refreshed a directory child that nothing had modified since it
\* was created at an earlier time.
C11_Witness ==
    /\ op.name = "touch"
    /\ op.status = "ok"
    /\ nodes[current_directory].children # None
    /\ Strip(op.arg) \in ChildNames(nodes, current_directory)
    /\ LET c == Children(nodes, current_directory)[Strip(op.arg)]
       IN  /\ nodes[c].type = "directory"
           /\ nodes[c].created_time < clock
           /\ nodes[c].modified_time = clock
           /\ \A k \in ChildNames(nodes, c) :
                  nodes[Children(nodes, c)[k]].created_time = nodes[c].created_time

\* C12: a call of resolve_path changes no node and not the current
\* directory, and a second call with the same path right after it returns the
\* same node, or not-found again.
C12_ResolveIsPure ==
    [][(op'.name = "resolve") =>
          /\ nodes' = nodes
          /\ current_directory' = current_directory
          /\ op'.value = resolve_path(nodes', current_directory', op'.arg)]_vars

\* resolve_path has found, by a relative path from a current directory other
\* than the root, a node that is neither of them.
C12_Witness ==
    /\ op.name = "resolve"
    /\ op.arg # ""
    /\ Char(op.arg, 1) # "/"
    /\ op.value # None
    /\ current_directory # root
    /\ Val(op.value) \notin {root, current_directory}

\* C13: for every child name a of the current directory, the path a/../a
\* resolves to the same node as the path a.
C13_UpAndBack ==
    nodes[current_directory].children # None =>
        \A a \in ChildNames(nodes, current_directory) :
            resolve_path(nodes, current_directory, a \o "/../" \o a)
              = resolve_path(nodes, current_directory, a)

\* The directory a call of list_directory lists: the node its path resolves
\* to, or the current directory when no path is given.
Listed(path) ==
    IF path # "" THEN Val(resolve_path(nodes, current_directory, path))
    ELSE current_directory

\* The entry of the simple listing for the child named k of directory d.
Entry(d, k) ==
    IF nodes[Children(nodes, d)[k]].type = "directory" THEN k \o "/" ELSE k

\* C14: a simple listing that succeeds has one entry per child of the listed
\* directory and no other, a directory as its name followed by '/' and a file
\* as its name, in ascending order of the names; it changes no node and not
\* the current directory.
C14_SimpleListing ==
    [][(op'.name = "ls" /\ ~op'.arg.detailed /\ op'.status = "ok") =>
          LET d     == Listed(op'.arg.path)
              items == Val(op'.value)
          IN  /\ nodes' = nodes
              /\ current_directory' = current_directory
              /\ Len(items) = Cardinality(ChildNames(nodes, d))
              /\ \A k \in ChildNames(nodes, d) :
                     \E i \in 1..Len(items) : items[i] = Entry(d, k)
              /\ \A i, j \in 1..Len(items) :
                     i < j => \E k1, k2 \in ChildNames(nodes, d) :
                                 /\ items[i] = Entry(d, k1)
                                 /\ items[j] = Entry(d, k2)
                                 /\ StrLess(k1, k2)]_vars

\* A simple listing with a directory entry and a file entry has been returned.
C14_Witness ==
    /\ op.name = "ls"
    /\ ~op.arg.detailed
    /\ op.status = "ok"
    /\ \E i, j \in 1..Len(Val(op.value)) :
           /\ Char(Val(op.value)[i], Len(Val(op.value)[i])) = "/"
           /\ Char(Val(op.value)[j], Len(Val(op.value)[j])) # "/"

\* The line the detailed listing makes up for the parent directory at time t.
ParentLine(t) ==
    [perm |-> "drwxr-xr-x", owner |-> "root", group |-> "root", size |-> 4096,
     time |-> t, name |-> ".."]

\* C15: a detailed listing of a directory other than the root is the made-up
\* '..' line followed by one line per child in ascending order of the names;
\* a detailed listing of the root is one line per child and nothing else.
C15_DetailedListing ==
    [][(op'.name = "ls" /\ op'.arg.detailed /\ op'.status = "ok") =>
          LET d     == Listed(op'.arg.path)
              items == Val(op'.value)
              first == IF d # root THEN 2 ELSE 1
          IN  /\ Len(items) = Cardinality(ChildNames(nodes, d)) + first - 1
              /\ d # root => items[1] = ParentLine(clock')
              /\ \A k \in ChildNames(nodes, d) :
                     \E i \in first..Len(items) :
                         items[i] = get_detailed_info(nodes[Children(nodes, d)[k]])
              /\ \A i, j \in first..Len(items) :
                     i < j => StrLess(items[i].name, items[j].name)]_vars

\* A detailed listing of a directory other than the root, with children, has
\* been returned.
C15_Witness ==
    /\ op.name = "ls"
    /\ op.arg.detailed
    /\ op.status = "ok"
    /\ Listed(op.arg.path) # root
    /\ Len(Val(op.value)) = Cardinality(ChildNames(nodes, Listed(op.arg.path))) + 1
    /\ Len(Val(op.value)) > 1
    /\ Val(op.value)[1].name = ".."

\* C16: change_directory with no path succeeds; the current directory becomes
\* the node /home/user resolves to if there is one and the root otherwise, and
\* it is a directory.
C16_CdHome ==
    [][(op'.name = "cd" /\ op'.arg = "") =>
          LET home_dir == resolve_path(nodes, current_directory, "/home/user")
          IN  /\ op'.status = "ok"
              /\ current_directory'
                   = IF home_dir # None THEN Val(home_dir) ELSE root
              /\ nodes'[current_directory'].type = "directory"]_vars

\* The error a call of ls, cd or cat must return for its path: not found when
\* the path does not resolve, a kind mismatch when it resolves to a file (ls,
\* cd) or to a directory (cat), and "" when it must not fail.
ExpectedError(name, path) ==
    LET r == resolve_path(nodes, current_directory, path)
    IN  IF name = "cat"
        THEN IF r = None THEN "File not found"
             ELSE IF nodes[Val(r)].type = "directory" THEN "Not a file"
             ELSE ""
        ELSE IF r = None THEN "Directory not found"
             ELSE IF nodes[Val(r)].type = "file" THEN "Not a directory"
             ELSE ""

\* C17: ls and cd with a path, and cat, return the not-found error when the
\* path does not resolve and the kind-mismatch error when it resolves to the
\* wrong kind; a call that returns an error changes no node and not the
\* current directory; cat of a file returns the content of that file.
C17_ErrorKinds ==
    [][/\ (op'.name \in {"ls", "cd", "cat"} /\ op'.status = "error") =>
             (nodes' = nodes /\ current_directory' = current_directory)
       /\ (op'.name = "ls" /\ op'.arg.path # "") =>
             LET e == ExpectedError("ls", op'.arg.path)
             IN  IF e # "" THEN op'.status = "error" /\ op'.err = e
                 ELSE op'.status = "ok"
       /\ (op'.name = "cd" /\ op'.arg # "") =>
             LET e == ExpectedError("cd", op'.arg)
             IN  IF e # "" THEN op'.status = "error" /\ op'.err = e
                 ELSE op'.status = "ok"
       /\ (op'.name = "cat") =>
             LET e == ExpectedError("cat", op'.arg)
             IN  IF e # "" THEN op'.status = "error" /\ op'.err = e
                 ELSE /\ op'.status = "ok"
                      /\ op'.value
                           = nodes[Val(resolve_path(nodes, current_directory,
                                                    op'.arg))].content]_vars

\* cd to a path that resolves to a file has returned the kind-mismatch error
\* and left the current directory, which is not the root, where it was.
C17_Witness ==
    /\ op.name = "cd"
    /\ op.status = "error"
    /\ op.err = "Not a directory"
    /\ current_directory # root
    /\ resolve_path(nodes, current_directory, op.arg) # None
    /\ nodes[Val(resolve_path(nodes, current_directory, op.arg))].type = "file"

\* C18: what a reader finds under the root after a call of load is either the
\* whole tree of before the call, or the whole tree of the source: never an
\* emptied or partly built root.
C18_LoadIsOneSwap ==
    [][(op'.name = "load") =>
          \/ /\ Reachable(nodes') = Reachable(nodes)
             /\ \A n \in Reachable(nodes) : nodes'[n] = nodes[n]
          \/ /\ op'.status = "ok"
             /\ ChildNames(nodes', root) = ElementNames(op'.arg.root.kids)
             /\ \A e \in ElementsAt(op'.arg.root.kids, "") :
                    resolve_path(nodes', current_directory', e.path) # None]_vars

\* C19: the root has the empty name and no parent, and every other node
\* reachable from the root has a parent that is a directory and holds that
\* very node under the node's name.
C19_EdgesAgree ==
    /\ nodes[root].name = ""
    /\ nodes[root].parent = None
    /\ LET reachable == Reachable(nodes)
       IN  \A n \in reachable \ {root} :
               /\ nodes[n].parent # None
               /\ Val(nodes[n].parent) \in reachable
               /\ nodes[Val(nodes[n].parent)].type = "directory"
               /\ nodes[n].name \in ChildNames(nodes, Val(nodes[n].parent))
               /\ Children(nodes, Val(nodes[n].parent))[nodes[n].name] = n

\* A load of two sibling files of one name has succeeded and the root holds
\* the second of them.
C19_Witness ==
    /\ LoadSucceeded
    /\ op.arg = SrcDuplicate
    /\ ChildNames(nodes, root) = {"f"}
    /\ Children(nodes, root)["f"] = nextId - 1
    /\ nodes[nextId - 1].content = Some("two")

\* C20: a directory whose children map an operation has changed, or has
\* filled at its creation, has the time of the operation as modified time;
\* and a touch of a child of the current directory gives the child the time
\* of the touch as modified time.
C20_ModifiedTimeRefreshed ==
    [][/\ \A d \in DOMAIN nodes' :
              /\ nodes'[d].type = "directory"
              /\ IF d \in DOMAIN nodes
                 THEN nodes'[d].children # nodes[d].children
                 ELSE nodes'[d].children # Some(<<>>)
              => nodes'[d].modified_time = clock'
       /\ (TouchesChild /\ op'.status = "ok") =>
              nodes'[Children(nodes, current_directory)[Strip(op'.arg)]].modified_time
                = clock']_vars

\* The path with every '/' written twice.
RECURSIVE DoubledSlashes(_)
DoubledSlashes(path) ==
    IF path = "" THEN ""
    ELSE IF Char(path, 1) = "/"
         THEN "//" \o DoubledSlashes(SubSeq(path, 2, Len(path)))
         ELSE Char(path, 1) \o DoubledSlashes(SubSeq(path, 2, Len(path)))

\* Paths of one and of several components, relative and absolute, to nodes
\* that exist in some states and not in others.
SlashPaths ==
    Paths \cup {"a", "a/.", "d/f", "home/user", "user/readme.txt", "/a/b", "/d",
                "/home/user/readme.txt", "..", "../user", "/etc/passwd/x"}

\* C21: between two calls, in every tree and from every current directory, a
\* path with every '/' doubled, and a path with a '/' appended, resolve as
\* the path itself, and "" and "/" resolve to the root.
C21_EmptyComponentsIgnored ==
    op = Idle =>
        /\ resolve_path(nodes, current_directory, "") = Some(root)
        /\ resolve_path(nodes, current_directory, "/") = Some(root)
        /\ \A path \in SlashPaths :
               LET r == resolve_path(nodes, current_directory, path)
               IN  /\ resolve_path(nodes, current_directory, DoubledSlashes(path)) = r
                   /\ resolve_path(nodes, current_directory, path \o "/") = r
                   /\ resolve_path(nodes, current_directory,
                                   DoubledSlashes(path) \o "//") = r

\* resolve_path has found /home/user from another directory than the root,
\* and finds the same node with doubled and trailing separators.
C21_Witness ==
    /\ op.name = "resolve"
    /\ op.arg = "/home/user"
    /\ op.value # None
    /\ current_directory # root
    /\ resolve_path(nodes, current_directory, "//home//user/") = op.value

\* Relative paths made of '.', '..' and empty components only.
DotPaths == {".", "..", "./.", "./..", "../.", "../..", "../../..", ".//..", "../"}

\* Absolute paths made of '..' components only.
UpPaths == {"/..", "/../..", "/../../..", "/../../../.."}

\* Components other than '.' and '..'.
OtherComponents == {"a", "d", "f", "home", "user", "readme.txt", "x"}

\* C22: between two calls, from every node n of every tree: '.' resolves to
\* n and '..' to the parent of n, or to n when it has none; a path of '.',
\* '..' and empty components resolves to some node; an absolute path of '..'
\* components resolves to the root; and a path whose first component is
\* another name resolves to nothing when n is a file or has no child of that
\* name, whatever follows the component.
C22_DotAndDotDot ==
    op = Idle =>
        /\ \A path \in UpPaths :
               resolve_path(nodes, current_directory, path) = Some(root)
        /\ \A n \in DOMAIN nodes :
               /\ resolve_path(nodes, n, ".") = Some(n)
               /\ resolve_path(nodes, n, "..")
                    = IF nodes[n].parent # None THEN nodes[n].parent ELSE Some(n)
               /\ \A path \in DotPaths : resolve_path(nodes, n, path) # None
               /\ \A c \in OtherComponents :
                      (nodes[n].type = "file" \/ c \notin ChildNames(nodes, n)) =>
                          /\ resolve_path(nodes, n, c) = None
                          /\ resolve_path(nodes, n, c \o "/..") = None
                          /\ resolve_path(nodes, n, "./" \o c \o "/.") = None

\* cd has moved the current directory two levels below the root; from there
\* '../..' and '../../..' are the root and a component applied to a file child
\* resolves to nothing.
C22_Witness ==
    /\ op.name = "cd"
    /\ op.status = "ok"
    /\ nodes[current_directory].parent # None
    /\ nodes[current_directory].parent # Some(root)
    /\ resolve_path(nodes, current_directory, "../..") = Some(root)
    /\ resolve_path(nodes, current_directory, "../../..") = Some(root)
    /\ resolve_path(nodes, current_directory, "readme.txt") # None
    /\ resolve_path(nodes, current_directory, "readme.txt/x") = None

\* The element has a name attribute that is not empty.
HasName(e) == "name" \in DOMAIN e.attrs /\ e.attrs["name"] # ""

\* Every directory and file element among elems has been parsed into node n:
\* n holds a child of its name, and a directory element's own elements have
\* been parsed into that child.
RECURSIVE Built(_, _, _)
Built(ns, n, elems) ==
    \A i \in 1..Len(KnownElements(elems)) :
        LET e == KnownElements(elems)[i]
        IN  /\ HasName(e)
            /\ ns[n].children # None
            /\ e.attrs["name"] \in ChildNames(ns, n)
            /\ e.tag = "directory" =>
                   Built(ns, Children(ns, n)[e.attrs["name"]], e.kids)

\* C23: a directory that a load has linked into the root holds everything
\* that its element contains: no directory made by a load is reachable from
\* its parent with a part of its subtree not parsed.
C23_LinkedWhenBuilt ==
    [][(/\ op'.name = "load"
        /\ op'.arg.exists
        /\ op'.arg.wellformed
        /\ op'.arg.root.tag = "vfs") =>
          \A i \in 1..Len(op'.arg.root.kids) :
              LET e == op'.arg.root.kids[i]
              IN  (/\ e.tag = "directory"
                   /\ HasName(e)
                   /\ e.attrs["name"] \in ChildNames(nodes', root)
                   /\ Children(nodes', root)[e.attrs["name"]] \notin DOMAIN nodes) =>
                      Built(nodes', Children(nodes', root)[e.attrs["name"]], e.kids)]_vars

\* The tree with one more node, not linked yet: a new node of the given name
\* and kind under the next free identifier.
WithNew(name, kind) ==
    (nextId :> VFSNode(name, kind, IF kind = "file" THEN Some("") ELSE None,
                       "rw-r--r--", "user", "users", 0, clock)) @@ nodes

\* C24: between two calls, for every node self of the tree and a new node of
\* a name that self holds or does not hold: add_child on a file raises and
\* changes no node; add_child on a directory puts the new node under its name,
\* in the place of a child of that name if there is one, makes self its
\* parent and changes nothing else but the modified time of self.  Every
\* child is held under its own name, so no directory holds two of one name.
C24_AddChild ==
    op = Idle =>
        /\ \A d \in DOMAIN nodes :
               nodes[d].type = "directory" =>
                   \A k \in ChildNames(nodes, d) : nodes[Children(nodes, d)[k]].name = k
        /\ \A self \in DOMAIN nodes, kind \in {"file", "directory"} :
               \A name \in {"a", "zz"} \cup (IF nodes[self].type = "directory"
                                             THEN ChildNames(nodes, self) ELSE {}) :
                   LET ns == WithNew(name, kind)
                       r  == add_child(ns, self, nextId, clock)
                   IN  IF nodes[self].type = "file"
                       THEN r.raised /\ r.nodes = ns
                       ELSE /\ ~r.raised
                            /\ DOMAIN r.nodes = DOMAIN ns
                            /\ r.nodes[nextId] = [ns[nextId] EXCEPT !.parent = Some(self)]
                            /\ \A n \in DOMAIN nodes \ {self} : r.nodes[n] = nodes[n]
                            /\ r.nodes[self]
                                 = [nodes[self] EXCEPT
                                       !.children = r.nodes[self].children,
                                       !.modified_time = clock]
                            /\ ChildNames(r.nodes, self)
                                 = ChildNames(nodes, self) \cup {name}
                            /\ Children(r.nodes, self)[name] = nextId
                            /\ \A k \in ChildNames(nodes, self) \ {name} :
                                   Children(r.nodes, self)[k] = Children(nodes, self)[k]

\* A load has added a second file f to the root in the place of the first,
\* which is gone; the second has the root as parent.
C24_Witness ==
    /\ op.name = "load"
    /\ op.status = "ok"
    /\ op.arg.root.kids = <<File(Named("f"), "one"), File(Named("f"), "two")>>
    /\ (nextId - 2) \notin DOMAIN nodes
    /\ nodes[nextId - 1].name = "f"
    /\ nodes[nextId - 1].parent = Some(root)
    /\ Children(nodes, root) = ("f" :> (nextId - 1))

\* The source cannot be loaded at all: there is no file, the file is not
\* well-formed XML, or its root element is not 'vfs'.
Unloadable(source) ==
    \/ ~source.exists
    \/ ~source.wellformed
    \/ source.root.tag # "vfs"

\* C25: a load of a source that does not exist, is not well-formed or has
\* another root element than 'vfs' raises an error with a message and
\* changes nothing: every node, the current directory and the loaded flag are
\* as before, and every path resolves to what it resolved to before.
C25_UnloadableSourceChangesNothing ==
    [][(op'.name = "load" /\ Unloadable(op'.arg)) =>
          /\ op'.status = "raise"
          /\ op'.err \in {"Error loading VFS", "Invalid XML format"}
          /\ nodes' = nodes
          /\ current_directory' = current_directory
          /\ loaded' = loaded
          /\ \A path \in Paths :
                 resolve_path(nodes', current_directory', path)
                   = resolve_path(nodes, current_directory, path)]_vars

\* A load of a source with another root element has failed after an earlier
\* load had succeeded, with a current directory other than the root.
C25_Witness ==
    /\ op.name = "load"
    /\ op.status = "raise"
    /\ op.arg.exists
    /\ op.arg.wellformed
    /\ op.arg.root.tag # "vfs"
    /\ loaded
    /\ current_directory # root
    /\ ChildNames(nodes, root) # {}

\* Relative paths from the current directory.
RelativePaths == {"a", "d", "f", "user", "readme.txt", ".", ".."}

\* C26: the path of the current directory resolves to the current directory
\* itself, so a relative path resolves as the path of the current directory
\* followed by '/' and that path.
C26_CurrentPathNamesCursor ==
    LET path == get_current_path(nodes, current_directory)
    IN  /\ resolve_path(nodes, current_directory, path) = Some(current_directory)
        /\ \A p \in RelativePaths :
               resolve_path(nodes, current_directory, path \o "/" \o p)
                 = resolve_path(nodes, current_directory, p)

\* C27: when touch succeeds, the name it was given (taken without its
\* surrounding whitespace) resolves from the current directory to the child
\* stored under that name, a node of that name.
C27_TouchedNameResolves ==
    [][(op'.name = "touch" /\ op'.status = "ok") =>
          LET name == Strip(op'.arg)
              r    == resolve_path(nodes', current_directory', name)
          IN  /\ nodes'[current_directory'].children # None
              /\ name \in ChildNames(nodes', current_directory')
              /\ r = Some(Children(nodes', current_directory')[name])
              /\ nodes'[Val(r)].name = name]_vars

=============================================================================
